---- MODULE Spec2Model ----
(***************************************************************************)
(* EEG band-power pipeline of egg_code_with_frontend.py.                   *)
(*                                                                         *)
(* Numbers.  Frequencies are held as integers in quarter hertz: a Welch    *)
(* window of int(sfreq * 4) samples has bins sfreq / n_fft = 0.25 Hz       *)
(* apart, so bin k of the FFT sits at frequency k.  A float that the code  *)
(* multiplies by 1e12 is held as a mantissa m and a decimal exponent e     *)
(* (value m * 10^e); a mean is a fraction n / d with an exponent.          *)
(*                                                                         *)
(* Errors.  A Python call either returns a value or raises; a result is a  *)
(* record whose field error is "none" or the name of the exception.        *)
(***************************************************************************)
EXTENDS Integers, Sequences, FiniteSets

VARIABLES
    pc,               \* control point of the code under analysis
    err,              \* exception that ended it ("none" while none)
    psds, freqs,      \* extract_band_power: the PSD matrix and its axis
    band_power,       \* the band -> power mapping built from them
    rest_file, task_file,            \* the two uploads (line 58-59)
    rest_raw, task_raw,              \* line 63-64
    rest_psd, task_psd,              \* line 79-80: [psds, freqs]
    rest_band_power, task_band_power,\* line 102-105
    summary,                         \* line 118-126: one entry per band
    k, i,                            \* client number, loop index
    features,                        \* process_eeg_data's list (line 34)
    client_features,                 \* line 133-135: finished clients
    client_updates, global_update    \* line 137-138

vars == <<pc, err, psds, freqs, band_power, rest_file, task_file, rest_raw,
          task_raw, rest_psd, task_psd, rest_band_power, task_band_power,
          summary, k, i, features, client_features, client_updates,
          global_update>>

bandVars == <<psds, freqs, band_power>>
scriptVars == <<rest_file, task_file, rest_raw, task_raw, rest_psd, task_psd,
                rest_band_power, task_band_power, summary, k, i, features,
                client_features>>
aggVars == <<client_updates, global_update>>

-----------------------------------------------------------------------------
(* Bounds of the model. *)

MaxCells == 6     \* channels * bins of a PSD matrix given to extract_band_power
MaxPsd == 1       \* PSD entries range over 0..MaxPsd
MaxStep == 2      \* bin spacing of an axis, in quarter hertz
MaxOffset == 1    \* an axis starts at most this far below a band edge
MaxSfreq == 3     \* sampling rates 1..MaxSfreq Hz
MaxCh == 2        \* channels of a recording
MaxLevel == 1     \* flat per-channel PSD level of a recording
MaxClients == 3   \* clients handed to the aggregator
MaxRec == 1       \* recordings per client handed to the aggregator

(* Program constants. *)

WindowSeconds == 4    \* n_fft = int(sfreq * 4)
PicoExp == 12         \* band_power * 1e12
Percent == 100        \* ... * 100

-----------------------------------------------------------------------------
(* Values *)

None == [error |-> "unset"]

\* a frequency in hertz, in bins of the 1 / WindowSeconds Hz resolution
Hz(f) == f * WindowSeconds

\* fmin=1, fmax=100 : the defaults of calculate_psd
fmin == Hz(1)
fmax == Hz(100)

\* the band catalog, lines 38-44 and 94-100
BandNames == <<"Delta", "Theta", "Alpha", "Beta", "Gamma">>

bands ==
    [Delta |-> <<Hz(1), Hz(4)>>,
     Theta |-> <<Hz(4), Hz(8)>>,
     Alpha |-> <<Hz(8), Hz(12)>>,
     Beta  |-> <<Hz(12), Hz(30)>>,
     Gamma |-> <<Hz(30), Hz(100)>>]

Raise(kind) == [error |-> kind]

RECURSIVE SumOver(_, _)
\* np.sum of the entries of one row selected by a boolean index
SumOver(row, idx) ==
    IF idx = {} THEN 0
    ELSE LET f == CHOOSE x \in idx : TRUE
         IN  row[f] + SumOver(row, idx \ {f})

\* the conversion to pico-watts is left out
TimesPicoDropped(x) == [m |-> x, e |-> 0]
\* x * 1e12
TimesPico(x) == [m |-> x, e |-> PicoExp]

-----------------------------------------------------------------------------
(* extract_band_power, lines 26-30 *)

\* the difference taken the other way round
FreqResNegated(fr) == fr[1] - fr[2]
\* freqs[1] - freqs[0]
FreqRes(fr) == fr[2] - fr[1]

\* the upper edge left out of the band
BandIdxHalfOpen(fr, band_range) ==
    {f \in 1..Len(fr) : fr[f] >= band_range[1] /\ fr[f] < band_range[2]}
\* np.logical_and(freqs >= band_range[0], freqs <= band_range[1])
BandIdx(fr, band_range) ==
    {f \in 1..Len(fr) : fr[f] >= band_range[1] /\ fr[f] <= band_range[2]}

extract_band_power(ps, fr, band_range) ==
    IF Len(fr) < 2 THEN Raise("IndexError")      \* freqs[1] of a shorter axis
    ELSE LET freq_res == FreqRes(fr)
             band_idx == BandIdx(fr, band_range)
             power == [c \in 1..Len(ps) |-> SumOver(ps[c], band_idx) * freq_res]
         IN  [error |-> "none", power |-> [c \in 1..Len(ps) |-> TimesPico(power[c])]]

\* {band: extract_band_power(psds, freqs, freq_range) for band, freq_range in
\* bands.items()}, lines 45 and 102-105: the first exception ends it
AllBands(ps, fr) ==
    LET r == [b \in DOMAIN bands |-> extract_band_power(ps, fr, bands[b])]
    IN  IF \E b \in DOMAIN bands : r[b].error # "none"
        THEN Raise(r[BandNames[1]].error)
        ELSE [error |-> "none", dict |-> [b \in DOMAIN bands |-> r[b].power]]

-----------------------------------------------------------------------------
(* SpecBand: extract_band_power on every PSD of a bounded family. *)

BandEdges == {bands[b][j] : b \in DOMAIN bands, j \in 1..2}

FreqStarts == {e - o : e \in BandEdges, o \in 0..MaxOffset} \cap fmin..fmax

Axis(f0, d, F) == [n \in 1..F |-> f0 + (n - 1) * d]

\* uniformly spaced, strictly increasing axes inside [fmin, fmax]
FreqAxes ==
    {a \in {Axis(f0, d, F) : f0 \in FreqStarts, d \in 1..MaxStep, F \in 1..MaxCells} :
        a[Len(a)] <= fmax}

PsdMatrices(F) ==
    UNION {[1..C -> [1..F -> 0..MaxPsd]] : C \in {c \in 1..MaxCells : c * F <= MaxCells}}

InitBand ==
    /\ pc = "extract"
    /\ err = "none"
    /\ freqs \in FreqAxes
    /\ psds \in PsdMatrices(Len(freqs))
    /\ band_power = None
    /\ rest_file = None /\ task_file = None /\ rest_raw = None /\ task_raw = None
    /\ rest_psd = None /\ task_psd = None
    /\ rest_band_power = None /\ task_band_power = None
    /\ summary = <<>> /\ k = 0 /\ i = 0 /\ features = <<>>
    /\ client_features = <<>>
    /\ client_updates = <<>> /\ global_update = None

\* the comprehension of line 45 / 102 returned a dict
ExtractBands ==
    /\ pc = "extract"
    /\ AllBands(psds, freqs).error = "none"
    /\ band_power' = AllBands(psds, freqs)
    /\ pc' = "extracted"
    /\ UNCHANGED <<err, psds, freqs, scriptVars, aggVars>>

\* ... or raised
ExtractBandsRaises ==
    /\ pc = "extract"
    /\ AllBands(psds, freqs).error # "none"
    /\ err' = AllBands(psds, freqs).error
    /\ pc' = "raised"
    /\ UNCHANGED <<bandVars, scriptVars, aggVars>>

NextBand == ExtractBands \/ ExtractBandsRaises

SpecBand == InitBand /\ [][NextBand]_vars

-----------------------------------------------------------------------------
(* calculate_psd, lines 17-23 *)

\* n_fft=int(sfreq * 4)
NFft(raw) == WindowSeconds * raw.sfreq

\* psd_array_welch with n_per_seg left None refuses n_fft > n_times
\* ("n_fft is not allowed to be > n_times", a ValueError, since mne 0.15).  Its frequency
\* axis is the bins 0..n_fft/2 at sfreq / n_fft each, cut to [fmin, fmax];
\* with no bin left, recent mne raises ValueError ("No frequencies found")
\* and older mne returns empty arrays: both outcomes are kept.  The Welch
\* estimate itself is not computed: a recording carries the flat level the
\* estimate gives each channel.
Welch(raw, lo, hi) ==
    LET bins == {b \in 0..(NFft(raw) \div 2) : lo <= b /\ b <= hi}
        F == Cardinality(bins)
        first == CHOOSE b \in bins : \A o \in bins : b <= o
        out == [error |-> "none",
                psds |-> [c \in 1..Len(raw.level) |-> [n \in 1..F |-> raw.level[c]]],
                freqs |-> [n \in 1..F |-> first + n - 1]]
    IN  IF bins = {} THEN {Raise("ValueError"), out} ELSE {out}

\* the window is cut to the signal instead of refusing it
calculate_psd_truncating(raw, lo, hi) == Welch(raw, lo, hi)
\* the set of outcomes of calculate_psd(raw, fmin, fmax)
calculate_psd(raw, lo, hi) ==
    IF NFft(raw) > raw.n_times THEN {Raise("ValueError")}
    ELSE Welch(raw, lo, hi)

\* load_and_preprocess, lines 11-14: the decoded, filtered recording of a
\* file.  Decoding and filtering are mne's; a file stands for what they give.
load_and_preprocess(file) == file.raw

-----------------------------------------------------------------------------
(* Summary of findings, lines 118-126 *)

RECURSIVE SumSeq(_)
SumSeq(x) == IF x = <<>> THEN 0 ELSE Head(x).m + SumSeq(Tail(x))

\* np.mean of a per-channel power array: the fraction n / d times 10^e
Mean(x) == [n |-> SumSeq(x), d |-> Len(x), e |-> x[1].e]

\* ((task_mean - rest_mean) / rest_mean) * 100 on numpy floats: a zero
\* divisor gives nan (0 / 0) or inf with a RuntimeWarning, never an exception
PercentChange(rest_mean, task_mean) ==
    LET dn == task_mean.n * rest_mean.d - rest_mean.n * task_mean.d
        dd == task_mean.d * rest_mean.d
    IN  IF rest_mean.n = 0
        THEN [kind |-> IF dn = 0 THEN "nan" ELSE "inf", n |-> 0, d |-> 1]
        ELSE [kind |-> "finite", n |-> dn * rest_mean.d * Percent, d |-> dd * rest_mean.n]

SummaryEntry(band) ==
    LET rest_mean == Mean(rest_band_power.dict[band])
        task_mean == Mean(task_band_power.dict[band])
    IN  [band |-> band, rest_mean |-> rest_mean, task_mean |-> task_mean,
         percent_change |-> PercentChange(rest_mean, task_mean)]

-----------------------------------------------------------------------------
(* process_eeg_data, lines 33-47 *)

\* process_eeg_data([rest_file, task_file]), lines 133-135
file_paths == <<rest_file, task_file>>

\* the body of the loop always reads the first file
ProcessOneFirst(paths, n) ==
    LET raw == load_and_preprocess(paths[1])
    IN  {IF p.error # "none" THEN p ELSE AllBands(p.psds, p.freqs) :
            p \in calculate_psd(raw, fmin, fmax)}
\* the outcomes of the body of the loop for the n-th file, lines 36-45
ProcessOne(paths, n) ==
    LET raw == load_and_preprocess(paths[n])
    IN  {IF p.error # "none" THEN p ELSE AllBands(p.psds, p.freqs) :
            p \in calculate_psd(raw, fmin, fmax)}

-----------------------------------------------------------------------------
(* aggregate_client_updates, lines 50-52 *)

\* np.mean(client_updates, axis=0) of a list of lists of dicts.  Client lists
\* of different lengths make a ragged array: numpy >= 1.24 raises ValueError,
\* older numpy builds an object array of lists, concatenates them with + and
\* fails on list / int (TypeError).  Lists of one length n > 0 give an object
\* array of dicts: dict + dict, or with one client dict / 1, is a TypeError.
\* Empty lists give a float array with no column, whose mean is empty.
aggregate_client_updates(updates) ==
    LET lens == {Len(updates[j]) : j \in DOMAIN updates}
    IN  IF Cardinality(lens) > 1 THEN {Raise("ValueError"), Raise("TypeError")}
        ELSE IF lens = {0} THEN {[error |-> "none", value |-> <<>>]}
        ELSE {Raise("TypeError")}

\* lines 137-138
Aggregate ==
    /\ pc = "aggregate"
    /\ \E out \in aggregate_client_updates(client_updates) :
          IF out.error = "none"
          THEN /\ global_update' = out
               /\ pc' = "aggregated"
               /\ err' = err
          ELSE /\ global_update' = global_update
               /\ pc' = "raised"
               /\ err' = out.error
    /\ UNCHANGED <<bandVars, scriptVars, client_updates>>

-----------------------------------------------------------------------------
(* Spec: the script, lines 61-141, on two uploaded recordings. *)

Levels == UNION {[1..C -> 0..MaxLevel] : C \in 1..MaxCh}

\* a recording: sampling rate, samples (one short of a window, or a window),
\* and the level of each channel
Raws ==
    {[sfreq |-> s, n_times |-> WindowSeconds * s - short, level |-> l] :
        s \in 1..MaxSfreq, short \in 0..1, l \in Levels}

Init ==
    /\ pc = "load"
    /\ err = "none"
    /\ psds = <<>> /\ freqs = <<>> /\ band_power = None
    /\ \E r \in Raws : rest_file = [name |-> "rest", raw |-> r]
    /\ \E r \in Raws : task_file = [name |-> "task", raw |-> r]
    /\ rest_raw = None /\ task_raw = None
    /\ rest_psd = None /\ task_psd = None
    /\ rest_band_power = None /\ task_band_power = None
    /\ summary = <<>> /\ k = 0 /\ i = 0 /\ features = <<>>
    /\ client_features = <<>>
    /\ client_updates = <<>> /\ global_update = None

\* lines 63-64
Load ==
    /\ pc = "load"
    /\ rest_raw' = load_and_preprocess(rest_file)
    /\ task_raw' = load_and_preprocess(task_file)
    /\ pc' = "psd"
    /\ UNCHANGED <<err, bandVars, rest_file, task_file, rest_psd, task_psd,
                   rest_band_power, task_band_power, summary, k, i, features,
                   client_features, aggVars>>

\* lines 79-80
CalculatePsds ==
    /\ pc = "psd"
    /\ \E r \in calculate_psd(rest_raw, fmin, fmax), t \in calculate_psd(task_raw, fmin, fmax) :
          IF r.error # "none"
          THEN /\ pc' = "raised" /\ err' = r.error
               /\ UNCHANGED <<rest_psd, task_psd>>
          ELSE IF t.error # "none"
          THEN /\ pc' = "raised" /\ err' = t.error
               /\ rest_psd' = r
               /\ UNCHANGED task_psd
          ELSE /\ pc' = "bands" /\ err' = err
               /\ rest_psd' = r
               /\ task_psd' = t
    /\ UNCHANGED <<bandVars, rest_file, task_file, rest_raw, task_raw,
                   rest_band_power, task_band_power, summary, k, i, features,
                   client_features, aggVars>>

\* lines 102-105
ExtractRestTask ==
    /\ pc = "bands"
    /\ LET r == AllBands(rest_psd.psds, rest_psd.freqs)
           t == AllBands(task_psd.psds, task_psd.freqs)
       IN  IF r.error # "none"
           THEN /\ pc' = "raised" /\ err' = r.error
                /\ UNCHANGED <<rest_band_power, task_band_power, i>>
           ELSE IF t.error # "none"
           THEN /\ pc' = "raised" /\ err' = t.error
                /\ rest_band_power' = r
                /\ UNCHANGED <<task_band_power, i>>
           ELSE /\ pc' = "summary" /\ err' = err
                /\ rest_band_power' = r
                /\ task_band_power' = t
                /\ i' = 1
    /\ UNCHANGED <<bandVars, rest_file, task_file, rest_raw, task_raw,
                   rest_psd, task_psd, summary, k, features,
                   client_features, aggVars>>

\* one turn of the loop of lines 118-126; after the last band the script goes
\* on to the first process_eeg_data call of line 133
SummaryOfBand ==
    /\ pc = "summary"
    /\ summary' = Append(summary, SummaryEntry(BandNames[i]))
    /\ IF i < Len(BandNames)
       THEN /\ i' = i + 1
            /\ UNCHANGED <<pc, k, features>>
       ELSE /\ pc' = "client"
            /\ k' = 1
            /\ i' = 1
            /\ features' = <<>>
    /\ UNCHANGED <<err, bandVars, rest_file, task_file, rest_raw, task_raw,
                   rest_psd, task_psd, rest_band_power, task_band_power,
                   client_features, aggVars>>

\* one turn of the loop of lines 35-46
ProcessFile ==
    /\ pc = "client"
    /\ i <= Len(file_paths)
    /\ \E out \in ProcessOne(file_paths, i) :
          IF out.error # "none"
          THEN /\ pc' = "raised" /\ err' = out.error
               /\ UNCHANGED <<features, i>>
          ELSE /\ features' = Append(features, out.dict)
               /\ i' = i + 1
               /\ UNCHANGED <<pc, err>>
    /\ UNCHANGED <<bandVars, rest_file, task_file, rest_raw, task_raw,
                   rest_psd, task_psd, rest_band_power, task_band_power,
                   summary, k, client_features, aggVars>>

NClients == 3     \* client_features_1 .. client_features_3

\* line 47, and the assignment of lines 133-135; after the third client,
\* line 137
ReturnFeatures ==
    /\ pc = "client"
    /\ i > Len(file_paths)
    /\ client_features' = Append(client_features, features)
    /\ features' = <<>>
    /\ i' = 1
    /\ IF k < NClients
       THEN /\ k' = k + 1
            /\ UNCHANGED <<pc, client_updates>>
       ELSE /\ pc' = "aggregate"
            /\ client_updates' = client_features'
            /\ UNCHANGED k
    /\ UNCHANGED <<err, bandVars, rest_file, task_file, rest_raw, task_raw,
                   rest_psd, task_psd, rest_band_power, task_band_power,
                   summary, global_update>>

Next ==
    \/ Load
    \/ CalculatePsds
    \/ ExtractRestTask
    \/ SummaryOfBand
    \/ ProcessFile
    \/ ReturnFeatures
    \/ Aggregate

Spec == Init /\ [][Next]_vars

-----------------------------------------------------------------------------
(* SpecAgg: aggregate_client_updates on bounded client feature collections. *)

\* a feature set as process_eeg_data builds it: band -> per-channel power
FeatureSet(names, nch, level) ==
    [b \in names |-> [c \in 1..nch |-> TimesPico(level)]]

FeatureSets ==
    {FeatureSet(names, nch, level) :
        names \in {DOMAIN bands, DOMAIN bands \ {"Gamma"}},
        nch \in 1..MaxCh, level \in 0..MaxLevel}

Collections == UNION {[1..n -> FeatureSets] : n \in 0..MaxRec}

InitAgg ==
    /\ pc = "aggregate"
    /\ err = "none"
    /\ psds = <<>> /\ freqs = <<>> /\ band_power = None
    /\ rest_file = None /\ task_file = None /\ rest_raw = None /\ task_raw = None
    /\ rest_psd = None /\ task_psd = None
    /\ rest_band_power = None /\ task_band_power = None
    /\ summary = <<>> /\ k = 0 /\ i = 0 /\ features = <<>>
    /\ client_features = <<>>
    /\ client_updates \in UNION {[1..n -> Collections] : n \in 1..MaxClients}
    /\ global_update = None

NextAgg == Aggregate

SpecAgg == InitAgg /\ [][NextAgg]_vars

-----------------------------------------------------------------------------
(* Properties of extract_band_power (SpecBand) *)

RECURSIVE DirectSum(_, _, _, _, _)
\* the sum of row[1..n] over the bins whose frequency lies in [lo, hi]
DirectSum(row, fr, lo, hi, n) ==
    IF n = 0 THEN 0
    ELSE (IF lo <= fr[n] /\ fr[n] <= hi THEN row[n] ELSE 0)
         + DirectSum(row, fr, lo, hi, n - 1)

AllBandPowers == {band_power.dict[b][c] : b \in DOMAIN bands, c \in 1..Len(psds)}

\* C1: on an axis of at least two bins extract_band_power returns, for each
\* band and channel, (freqs[1] - freqs[0]) * (the sum of the channel's PSD
\* over exactly the bins with lo <= freqs[f] <= hi) * 10^12.
C1_BandPowerIsScaledMaskedSum ==
    (pc # "extract" /\ Len(freqs) >= 2) =>
        /\ pc = "extracted"
        /\ \A b \in DOMAIN bands :
              /\ DOMAIN band_power.dict[b] = 1..Len(psds)
              /\ \A c \in 1..Len(psds) :
                    band_power.dict[b][c] =
                        [m |-> (freqs[2] - freqs[1])
                                 * DirectSum(psds[c], freqs, bands[b][1], bands[b][2], Len(freqs)),
                         e |-> 12]

\* a band with positive power on a 0.5 Hz axis, next to a bin outside the
\* band that holds power too
C1_Witness ==
    /\ pc = "extracted"
    /\ freqs[2] - freqs[1] = 2
    /\ \E b \in DOMAIN bands, c \in 1..Len(psds), f \in 1..Len(freqs) :
          /\ band_power.dict[b][c].m > 0
          /\ ~(bands[b][1] <= freqs[f] /\ freqs[f] <= bands[b][2])
          /\ psds[c][f] > 0

NoBinIn(b) ==
    \A f \in 1..Len(freqs) : ~(bands[b][1] <= freqs[f] /\ freqs[f] <= bands[b][2])

\* C6: when no bin of the axis lies in [lo, hi], extract_band_power returns
\* exactly 0 for every channel and raises nothing, on every axis, an axis of
\* fewer than two bins included.
C6_EmptyBandIsZeroNotError ==
    pc # "extract" =>
        \A b \in DOMAIN bands :
            NoBinIn(b) =>
                /\ pc = "extracted"
                /\ \A c \in 1..Len(psds) : band_power.dict[b][c].m = 0

NonNegative == \A c \in 1..Len(psds), f \in 1..Len(freqs) : psds[c][f] >= 0
StrictlyIncreasing == \A f \in 1..(Len(freqs) - 1) : freqs[f] < freqs[f + 1]

\* C7: for a PSD matrix with non-negative entries on a strictly increasing
\* axis, every value extract_band_power returns, for every channel and every
\* band of the catalog, is >= 0.
C7_BandPowerNonNegative ==
    (pc = "extracted" /\ NonNegative /\ StrictlyIncreasing) =>
        \A p \in AllBandPowers : p.m >= 0 /\ p.e >= 0

\* two channels, one with power in some band and one without
C7_Witness ==
    /\ pc = "extracted" /\ NonNegative /\ StrictlyIncreasing
    /\ Len(psds) = 2
    /\ \E b \in DOMAIN bands :
          band_power.dict[b][1].m > 0 /\ band_power.dict[b][2].m = 0

\* the edges two bands of the catalog share: 4, 8, 12 and 30 Hz
SharedEdges ==
    {e \in BandEdges : \E a, b \in DOMAIN bands : bands[a][2] = e /\ bands[b][1] = e}

BandsHolding(f) ==
    {b \in DOMAIN bands : bands[b][1] <= freqs[f] /\ freqs[f] <= bands[b][2]}

\* C9: on a PSD inside [1, 100] Hz a bin on a shared edge is counted in both
\* adjacent bands and every other bin in exactly one, so the five band powers
\* add up to the total power plus the contribution of the shared-edge bins.
C9_SharedEdgeBinsCountedTwice ==
    pc = "extracted" =>
        /\ \A f \in 1..Len(freqs) :
              Cardinality(BandsHolding(f)) = IF freqs[f] \in SharedEdges THEN 2 ELSE 1
        /\ \A c \in 1..Len(psds) :
              LET d == band_power.dict
                  total == DirectSum(psds[c], freqs, fmin, fmax, Len(freqs))
                  edge(f) == IF freqs[f] \in SharedEdges THEN psds[c][f] ELSE 0
                  RECURSIVE edges(_)
                  edges(n) == IF n = 0 THEN 0 ELSE edge(n) + edges(n - 1)
              IN  d.Delta[c].m + d.Theta[c].m + d.Alpha[c].m + d.Beta[c].m + d.Gamma[c].m
                    = (freqs[2] - freqs[1]) * (total + edges(Len(freqs)))

\* a PSD with power on a shared edge and power off it
C9_Witness ==
    /\ pc = "extracted"
    /\ \E c \in 1..Len(psds), f, g \in 1..Len(freqs) :
          /\ freqs[f] \in SharedEdges /\ psds[c][f] > 0
          /\ freqs[g] \notin SharedEdges /\ psds[c][g] > 0

-----------------------------------------------------------------------------
(* Properties of the script (Spec) *)

\* C2: when the mean rest power of a band is 0 the comparison signals a
\* DegenerateBaselineError for that band and produces no infinite or NaN
\* percent_change.
C2_ZeroBaselineSignalsError ==
    \A j \in DOMAIN summary :
        summary[j].rest_mean.n = 0 =>
            /\ err = "DegenerateBaselineError"
            /\ summary[j].percent_change.kind = "finite"

Short(raw) == raw.n_times < 4 * raw.sfreq

C8_ChannelMismatchIsError ==
    (pc # "load" /\ Len(rest_raw.level) # Len(task_raw.level)) =>
        /\ summary = <<>>
        /\ pc \in {"psd", "bands", "summary", "raised"}

\* C10: process_eeg_data returns one feature set per recording, the i-th
\* computed from the i-th recording alone and holding exactly the five
\* catalog bands, and every invocation on the same recordings returns the
\* same.
C10_OneFeatureSetPerRecording ==
    /\ \A c \in DOMAIN client_features :
          /\ Len(client_features[c]) = 2
          /\ \A j \in 1..2 :
                DOMAIN client_features[c][j] = {"Delta", "Theta", "Alpha", "Beta", "Gamma"}
          /\ client_features[c][1] = rest_band_power.dict
          /\ client_features[c][2] = task_band_power.dict
          /\ client_features[c] = client_features[1]
    /\ pc = "client" =>
          /\ Len(features) = i - 1
          /\ i > 1 => features[1] = rest_band_power.dict

\* three clients done on two recordings whose features differ
C10_Witness ==
    /\ Len(client_features) = 3
    /\ client_features[3][1] # client_features[3][2]
    /\ Len(rest_raw.level) # Len(task_raw.level)

-----------------------------------------------------------------------------
(* Properties of aggregate_client_updates (SpecAgg) *)

\* C3: aggregate_client_updates of one client's feature collection returns
\* it unchanged, and of N >= 1 identical collections returns the data of any
\* one of them.
C3_IdenticalClientsIdentity ==
    (pc # "aggregate" /\ \A j \in DOMAIN client_updates : client_updates[j] = client_updates[1]) =>
        /\ pc = "aggregated"
        /\ global_update.value = client_updates[1]

\* bands and channel counts of each recording, in order
Structure(coll) ==
    [j \in DOMAIN coll |-> [b \in DOMAIN coll[j] |-> Len(coll[j][b])]]

\* C4: client feature collections that are not structurally identical make
\* the aggregation fail with a ShapeMismatchError and return nothing.
C4_MismatchIsShapeMismatchError ==
    (pc # "aggregate"
       /\ \E j \in DOMAIN client_updates :
             Structure(client_updates[j]) # Structure(client_updates[1])) =>
        /\ pc = "raised"
        /\ err = "ShapeMismatchError"
        /\ global_update = None

====
